---- MODULE Spec2Model ----
(***************************************************************************)
(* Model of user_data_validator.py: the per-field rule evaluator           *)
(* (validate_field), the record validator (validate_data), the test-case   *)
(* generator (generate_test_cases) and the harness loop that runs the      *)
(* generated cases (run_test_cases).                                       *)
(*                                                                         *)
(* Python values are tagged records, strings are sequences of characters,  *)
(* a rule spec is a record whose "keys" field is the set of keys present   *)
(* in the JSON object, and an error message is a record holding the        *)
(* template that produced it and the interpolated values.                  *)
(***************************************************************************)
EXTENDS Integers, Sequences, FiniteSets, TLC

VARIABLES pc, schema, field, value, spec, user_data, errors, prev_errors,
          heap, valid_case, cases, gi, stage, results

vars == <<pc, schema, field, value, spec, user_data, errors, prev_errors,
          heap, valid_case, cases, gi, stage, results>>

(***************************************************************************)
(* Bounds of the model.                                                    *)
(***************************************************************************)
\* numeric rule parameters (min_length, max_length, minimum, maximum) range over 0..MaxNum
MaxNum == 1
\* rule keys, besides type, in the spec of a schema's first field
MaxRules == 2

(***************************************************************************)
(* Python values.                                                          *)
(***************************************************************************)
Str(s) == [kind |-> "str", s |-> s, n |-> 0, b |-> FALSE]
Int_(n) == [kind |-> "int", s |-> <<>>, n |-> n, b |-> FALSE]
Bool(b) == [kind |-> "bool", s |-> <<>>, n |-> 0, b |-> b]
None == [kind |-> "none", s |-> <<>>, n |-> 0, b |-> FALSE]

\* isinstance(value, str)
IsStr(v) == v.kind = "str"
\* isinstance(value, int): bool is a subclass of int in Python
IsInt(v) == v.kind \in {"int", "bool"}
\* isinstance(value, bool)
IsBool(v) == v.kind = "bool"

\* the number a value of class int (or its subclass bool) compares as
NumOf(v) == IF v.kind = "bool" THEN (IF v.b THEN 1 ELSE 0) ELSE v.n

\* Python's ==  on the values of the model (True == 1, False == 0)
PyEq(v, w) ==
    \/ IsStr(v) /\ IsStr(w) /\ v.s = w.s
    \/ IsInt(v) /\ IsInt(w) /\ NumOf(v) = NumOf(w)
    \/ v.kind = "none" /\ w.kind = "none"

\* value in spec['enum']
PyIn(v, enum) == \E i \in 1..Len(enum) : PyEq(enum[i], v)

\* len(value) of a str
PyLen(v) == Len(v.s)

(***************************************************************************)
(* Regular expressions: a pattern is a sequence of tokens, "^" the start   *)
(* anchor, "." any character, anything else a literal character.           *)
(***************************************************************************)
RECURSIVE MatchFrom(_, _, _, _)
\* tokens k.. of pattern p match string s from position i on
MatchFrom(p, k, s, i) ==
    IF k > Len(p) THEN TRUE
    ELSE IF p[k] = "^" THEN i = 1 /\ MatchFrom(p, k + 1, s, i)
    ELSE /\ i <= Len(s)
         /\ (p[k] = "." \/ p[k] = s[i])
         /\ MatchFrom(p, k + 1, s, i + 1)

\* a match found at any position of the string (re.search)
re_search(p, s) == \E i \in 1..(Len(s) + 1) : MatchFrom(p, 1, s, i)

\* re.match(pattern, string): a match at the beginning of the string
re_match(p, s) == MatchFrom(p, 1, s, 1)

(***************************************************************************)
(* Rule specs and error messages.                                          *)
(***************************************************************************)
RuleKeys == {"type", "min_length", "max_length", "pattern", "enum", "minimum", "maximum"}

NoEnum == <<>>

Msg(f, rule, n, enum) == [field |-> f, rule |-> rule, n |-> n, enum |-> enum]

\* f"{field} is required."
RequiredMsg(f) == Msg(f, "required", 0, NoEnum)

\* lines 12-21: the type check
TypeErrors(f, v, sp) ==
    IF "type" \notin sp.keys THEN <<>>
    ELSE IF sp.type = "string"
         THEN IF ~IsStr(v) THEN <<Msg(f, "type_string", 0, NoEnum)>> ELSE <<>>
    ELSE IF sp.type = "integer"
         THEN IF ~IsInt(v) THEN <<Msg(f, "type_integer", 0, NoEnum)>> ELSE <<>>
    ELSE IF sp.type = "boolean"
         THEN IF ~IsBool(v) THEN <<Msg(f, "type_boolean", 0, NoEnum)>> ELSE <<>>
    ELSE <<>>

\* lines 24-26
MinLengthErrors(f, v, sp) ==
    IF "min_length" \in sp.keys /\ IsStr(v) /\ PyLen(v) < sp.min_length
    THEN <<Msg(f, "min_length", sp.min_length, NoEnum)>> ELSE <<>>

\* lines 28-30
MaxLengthErrors(f, v, sp) ==
    IF "max_length" \in sp.keys /\ IsStr(v) /\ PyLen(v) > sp.max_length
    THEN <<Msg(f, "max_length", sp.max_length, NoEnum)>> ELSE <<>>

\* lines 32-34
PatternErrors(f, v, sp) ==
    IF "pattern" \in sp.keys /\ IsStr(v) /\ ~re_match(sp.pattern, v.s)
    THEN <<Msg(f, "pattern", 0, NoEnum)>> ELSE <<>>

\* lines 36-38
EnumErrors(f, v, sp) ==
    IF "enum" \in sp.keys /\ ~PyIn(v, sp.enum)
    THEN <<Msg(f, "enum", 0, sp.enum)>> ELSE <<>>

\* lines 40-42
MinimumErrors(f, v, sp) ==
    IF "minimum" \in sp.keys /\ IsInt(v) /\ NumOf(v) < sp.minimum
    THEN <<Msg(f, "minimum", sp.minimum, NoEnum)>> ELSE <<>>

\* lines 44-46
MaximumErrors(f, v, sp) ==
    IF "maximum" \in sp.keys /\ IsInt(v) /\ NumOf(v) > sp.maximum
    THEN <<Msg(f, "maximum", sp.maximum, NoEnum)>> ELSE <<>>

\* the checks of validate_field with the maximum check moved before the
\* minimum check
validate_field_reordered(f, v, sp) ==
    TypeErrors(f, v, sp) \o MinLengthErrors(f, v, sp) \o MaxLengthErrors(f, v, sp)
    \o PatternErrors(f, v, sp) \o EnumErrors(f, v, sp)
    \o MaximumErrors(f, v, sp) \o MinimumErrors(f, v, sp)

\* validate_field(field, value, spec)
validate_field(f, v, sp) ==
    TypeErrors(f, v, sp) \o MinLengthErrors(f, v, sp) \o MaxLengthErrors(f, v, sp)
    \o PatternErrors(f, v, sp) \o EnumErrors(f, v, sp)
    \o MinimumErrors(f, v, sp) \o MaximumErrors(f, v, sp)

(***************************************************************************)
(* Inputs.                                                                 *)
(***************************************************************************)
SA == <<"A">>
SxA == <<"x", "A">>
STest == <<"t", "e", "s", "t">>
SInvalid == <<"i", "n", "v", "a", "l", "i", "d">>
SNotInEnum == <<"n", "o", "t", "-", "i", "n", "-", "e", "n", "u", "m">>

Nums == 0..MaxNum
Patterns == {<<"^", "A">>, <<"A">>, <<".", "A">>}
Types == {"string", "integer", "boolean", "number"}

Opt(k, ks, S, d) == IF k \in ks THEN S ELSE {d}

\* the rule specs with a key set in KS, types in T, lower bounds in Lo, upper
\* bounds in Hi, patterns in P and enums in E
SpecsOver(KS, T, Lo, Hi, P, E) ==
    UNION { [keys : {ks},
             type : Opt("type", ks, T, "-"),
             min_length : Opt("min_length", ks, Lo, 0),
             max_length : Opt("max_length", ks, Hi, 0),
             pattern : Opt("pattern", ks, P, <<>>),
             enum : Opt("enum", ks, E, NoEnum),
             minimum : Opt("minimum", ks, Lo, 0),
             maximum : Opt("maximum", ks, Hi, 0)] : ks \in KS }

FieldEnums == {<<Str(SA), Int_(1)>>, <<Int_(0)>>}
FieldSpecs == SpecsOver(SUBSET RuleKeys, Types, Nums, Nums, Patterns, FieldEnums)
FieldValues ==
    {Str(<<>>), Str(SA), Str(SxA)} \cup {Int_(n) : n \in -1..(MaxNum + 1)}
    \cup {Bool(TRUE), Bool(FALSE), None}

NoSpec == [keys |-> {}, type |-> "-", min_length |-> 0, max_length |-> 0,
           pattern |-> <<>>, enum |-> NoEnum, minimum |-> 0, maximum |-> 0]
NoSchema == [properties |-> <<>>, required |-> {}]
NoRecord == [x \in {} |-> None]

(***************************************************************************)
(* The field evaluator applied to one (field, value, spec).                *)
(***************************************************************************)
InitField ==
    /\ pc = "field"
    /\ field \in {"a", "b"}
    /\ value \in FieldValues
    /\ spec \in FieldSpecs
    /\ errors = <<>>
    /\ schema = NoSchema /\ user_data = NoRecord /\ prev_errors = <<>>
    /\ heap = <<>> /\ valid_case = 0 /\ cases = <<>> /\ gi = 0 /\ stage = 0
    /\ results = <<>>

ValidateField ==
    /\ pc = "field"
    /\ errors' = validate_field(field, value, spec)
    /\ pc' = "field_done"
    /\ UNCHANGED <<schema, field, value, spec, user_data, prev_errors,
                   heap, valid_case, cases, gi, stage, results>>

NextField == ValidateField

SpecField == InitField /\ [][NextField]_vars

(***************************************************************************)
(* Properties of the field evaluator.                                      *)
(***************************************************************************)
HasMsg(errs, f, rule) == \E i \in 1..Len(errs) : errs[i].field = f /\ errs[i].rule = rule

CountMsg(errs, f, rule) ==
    Cardinality({i \in 1..Len(errs) : errs[i].field = f /\ errs[i].rule = rule})

\* the rule message a key of the spec produces ("type" has one per type tag)
RulesOf(k) == IF k = "type" THEN {"type_string", "type_integer", "type_boolean"} ELSE {k}

\* The value kinds of the record model: text, whole number, boolean are
\* disjoint, and a constraint is violated as sections 3 and 4.2 state it.
KindOfType(t) == IF t = "string" THEN "str" ELSE IF t = "integer" THEN "int" ELSE "bool"

Violated(k, v, sp) ==
    /\ k \in sp.keys
    /\ CASE k = "type" -> sp.type \in {"string", "integer", "boolean"}
                          /\ v.kind # KindOfType(sp.type)
         [] k = "min_length" -> v.kind = "str" /\ Len(v.s) < sp.min_length
         [] k = "max_length" -> v.kind = "str" /\ Len(v.s) > sp.max_length
         [] k = "pattern" -> v.kind = "str" /\ ~MatchFrom(sp.pattern, 1, v.s, 1)
         [] k = "enum" -> \A i \in 1..Len(sp.enum) : sp.enum[i] # v
         [] k = "minimum" -> v.kind = "int" /\ v.n < sp.minimum
         [] k = "maximum" -> v.kind = "int" /\ v.n > sp.maximum

\* a boolean appears neither as the value nor in the enum
NoBooleans(v, sp) ==
    /\ v.kind # "bool"
    /\ \A i \in 1..Len(sp.enum) : sp.enum[i].kind # "bool"

\* C1: a boolean value checked against type "integer" always yields the
\* message "<field> should be an integer."
C1_BooleanIsNotInteger ==
    (pc = "field_done" /\ value.kind = "bool"
        /\ "type" \in spec.keys /\ spec.type = "integer")
    => HasMsg(errors, field, "type_integer")

\* C3: validate_field returns exactly one message per violated constraint of
\* the spec and no message for a constraint that is not violated.
C3_OneMessagePerViolation ==
    pc = "field_done" =>
        /\ Len(errors) = Cardinality({k \in RuleKeys : Violated(k, value, spec)})
        /\ \A k \in RuleKeys :
              IF Violated(k, value, spec)
              THEN \E r \in RulesOf(k) : CountMsg(errors, field, r) = 1
              ELSE \A r \in RulesOf(k) : CountMsg(errors, field, r) = 0

\* C3 restricted to inputs without booleans (the case C1 and C8 are about):
\* there the messages are exactly the violated constraints
C3_HoldsWithoutBooleans ==
    (pc = "field_done" /\ NoBooleans(value, spec)) =>
        /\ Len(errors) = Cardinality({k \in RuleKeys : Violated(k, value, spec)})
        /\ \A k \in RuleKeys :
              IF Violated(k, value, spec)
              THEN \E r \in RulesOf(k) : CountMsg(errors, field, r) = 1
              ELSE \A r \in RulesOf(k) : CountMsg(errors, field, r) = 0

\* C7: a string passes the pattern check only if the pattern matches at
\* position 0; a pattern that matches only later in the value ("^A" or "A"
\* against "xA") yields "<field> does not match required pattern."
C7_PatternAnchoredAtStart ==
    (pc = "field_done" /\ value.kind = "str" /\ "pattern" \in spec.keys) =>
        /\ ~HasMsg(errors, field, "pattern") => MatchFrom(spec.pattern, 1, value.s, 1)
        /\ (value.s = SxA /\ spec.pattern \in {<<"^", "A">>, <<"A">>})
              => HasMsg(errors, field, "pattern")

\* the pattern "A" has been checked against "xA", where it matches at
\* position 1 only, and the pattern message was produced
C7_Witness ==
    /\ pc = "field_done" /\ value = Str(SxA)
    /\ "pattern" \in spec.keys /\ spec.pattern = <<"A">>
    /\ HasMsg(errors, field, "pattern")

\* C8: for a value whose kind is not integer (a boolean included) no
\* "must be at least" and no "must be at most" message is produced
C8_RangeChecksOnlyForIntegers ==
    (pc = "field_done" /\ value.kind # "int") =>
        /\ ~HasMsg(errors, field, "minimum")
        /\ ~HasMsg(errors, field, "maximum")

\* C8 for the kinds other than boolean
C8_HoldsForNonBooleans ==
    (pc = "field_done" /\ value.kind \notin {"int", "bool"}) =>
        /\ ~HasMsg(errors, field, "minimum")
        /\ ~HasMsg(errors, field, "maximum")

(***************************************************************************)
(* The record validator.  A schema is its "properties" in declaration      *)
(* order (a dict: the names are distinct) and its "required" names; a      *)
(* record is a function from the names it holds to their values.           *)
(***************************************************************************)
Declared(sch) == {sch.properties[i].name : i \in 1..Len(sch.properties)}

\* the undeclared fields of the record reported as errors
UnknownFieldErrors(sch, ud) ==
    LET unknown(f) == f \in DOMAIN ud /\ f \notin Declared(sch)
    IN  (IF unknown("a") THEN <<Msg("a", "unknown", 0, NoEnum)>> ELSE <<>>)
        \o (IF unknown("b") THEN <<Msg("b", "unknown", 0, NoEnum)>> ELSE <<>>)
        \o (IF unknown("u") THEN <<Msg("u", "unknown", 0, NoEnum)>> ELSE <<>>)

\* the body of the loop with the required-field message never produced
FieldErrorsNoRequired(sch, ud, i) ==
    LET f == sch.properties[i].name
    IN  IF f \notin DOMAIN ud THEN <<>>
        ELSE validate_field(f, ud[f], sch.properties[i].spec)

\* lines 54-58: the body of the loop of validate_data for the i-th property
FieldErrors(sch, ud, i) ==
    LET f == sch.properties[i].name
    IN  IF f \notin DOMAIN ud
        THEN IF sch.required # {} /\ f \in sch.required
             THEN <<RequiredMsg(f)>>
             ELSE <<>>
        ELSE validate_field(f, ud[f], sch.properties[i].spec)

RECURSIVE ErrorsFrom(_, _, _)
\* line 53: the loop over schema['properties'], from the i-th property on
ErrorsFrom(sch, ud, i) ==
    IF i > Len(sch.properties) THEN <<>>
    ELSE FieldErrors(sch, ud, i) \o ErrorsFrom(sch, ud, i + 1)

\* a validator that also reports the fields the schema does not declare
validate_data_strict(sch, ud) == ErrorsFrom(sch, ud, 1) \o UnknownFieldErrors(sch, ud)

\* validate_data(schema, user_data)
validate_data(sch, ud) == ErrorsFrom(sch, ud, 1)

KeySets(n) == {ks \in SUBSET RuleKeys : Cardinality(ks \ {"type"}) <= n}
AtMostOneKey == {{}} \cup {{k} : k \in RuleKeys}
DataSpecsOver(KS) ==
    SpecsOver(KS, {"string", "integer"}, {3}, {1}, {<<"^", "A">>}, {<<Str(SA), Int_(1)>>})
DataSpecs == DataSpecsOver(KeySets(MaxRules))
DataSpecsLater == DataSpecsOver(AtMostOneKey)
DataValues == {Str(SA), Str(SxA), Int_(2)}
UndeclaredValues == {Str(SxA), Int_(0)}

Prop(f, sp) == [name |-> f, spec |-> sp]

DataSchemas ==
    [properties : {<<>>} \cup {<<Prop("a", s)>> : s \in DataSpecs}
                  \cup {<<Prop("a", s[1]), Prop("b", s[2])>> : s \in DataSpecs \X DataSpecsLater},
     required : SUBSET {"a", "b", "u"}]

\* the records over the declared names a, b and the undeclared name u
DataRecords ==
    UNION { [D -> DataValues] : D \in SUBSET {"a", "b"} }
    \cup UNION { { [f \in D \cup {"u"} |-> IF f = "u" THEN v ELSE r[f]] :
                      r \in [D -> DataValues], v \in UndeclaredValues }
                 : D \in SUBSET {"a", "b"} }

InitData ==
    /\ pc = "data"
    /\ schema \in DataSchemas
    /\ user_data \in DataRecords
    /\ errors = <<>> /\ prev_errors = <<>>
    /\ field = "" /\ value = None /\ spec = NoSpec
    /\ heap = <<>> /\ valid_case = 0 /\ cases = <<>> /\ gi = 0 /\ stage = 0
    /\ results = <<>>

\* errors = validate_data(schema, case)
ValidateData ==
    /\ pc = "data"
    /\ errors' = validate_data(schema, user_data)
    /\ pc' = "data_done"
    /\ UNCHANGED <<schema, field, value, spec, user_data, prev_errors,
                   heap, valid_case, cases, gi, stage, results>>

\* the caller validates the record again with one more undeclared field
ValidateWithUndeclared ==
    /\ pc \in {"data_done", "data_again"}
    /\ \E f \in {"a", "b", "u"} \ (Declared(schema) \cup DOMAIN user_data) :
       \E v \in UndeclaredValues :
          /\ user_data' = [g \in DOMAIN user_data \cup {f} |->
                              IF g = f THEN v ELSE user_data[g]]
          /\ prev_errors' = errors
          /\ errors' = validate_data(schema, user_data')
    /\ pc' = "data_again"
    /\ UNCHANGED <<schema, field, value, spec, heap, valid_case, cases, gi, stage, results>>

\* the caller validates the record again with one undeclared field removed
ValidateWithoutUndeclared ==
    /\ pc \in {"data_done", "data_again"}
    /\ \E f \in DOMAIN user_data \ Declared(schema) :
          /\ user_data' = [g \in DOMAIN user_data \ {f} |-> user_data[g]]
          /\ prev_errors' = errors
          /\ errors' = validate_data(schema, user_data')
    /\ pc' = "data_again"
    /\ UNCHANGED <<schema, field, value, spec, heap, valid_case, cases, gi, stage, results>>

NextData == ValidateData \/ ValidateWithUndeclared \/ ValidateWithoutUndeclared

SpecData == InitData /\ [][NextData]_vars

(***************************************************************************)
(* Properties of the record validator.                                     *)
(***************************************************************************)
Validated == pc \in {"data_done", "data_again"}

\* the messages of one field, in the order of the list
MsgsFor(errs, f) == SelectSeq(errs, LAMBDA m : m.field = f)

RuleMsgs == {"type_string", "type_integer", "type_boolean", "min_length",
             "max_length", "pattern", "enum", "minimum", "maximum"}

\* C2 as stated: every name listed in required and missing from the record
\* has exactly one message, "<f> is required.", and no rule-check message
C2_RequiredMissingAnySchema ==
    Validated =>
        \A f \in schema.required :
            f \notin DOMAIN user_data => MsgsFor(errors, f) = <<RequiredMsg(f)>>

\* C2 amended: every field declared in properties, listed in required and
\* missing from the record has exactly one message, "<f> is required.", and
\* no rule-check message
C2_RequiredMissingDeclared ==
    Validated =>
        \A f \in schema.required \cap Declared(schema) :
            f \notin DOMAIN user_data =>
                /\ MsgsFor(errors, f) = <<RequiredMsg(f)>>
                /\ \A r \in RuleMsgs : ~HasMsg(errors, f, r)

\* a declared required field with rules is missing and a second declared
\* field is present with an error of its own
C2_Witness ==
    /\ pc = "data_done"
    /\ Len(schema.properties) = 2
    /\ "a" \in schema.required /\ "a" \notin DOMAIN user_data
    /\ schema.properties[1].spec.keys = {"type", "minimum"}
    /\ "b" \in DOMAIN user_data
    /\ Len(errors) = 2 /\ errors[1] = RequiredMsg("a")

\* C5: no message refers to a field of the record that the schema does not
\* declare, and validating again after adding or removing an undeclared
\* field returns the same list
C5_UndeclaredFieldsIgnored ==
    /\ Validated =>
          \A i \in 1..Len(errors) : errors[i].field \in Declared(schema)
    /\ pc = "data_again" => errors = prev_errors

\* an undeclared field was added to a record that has errors
C5_Witness ==
    /\ pc = "data_again"
    /\ "u" \in DOMAIN user_data /\ "u" \notin Declared(schema)
    /\ Len(errors) >= 2

PropIndex(sch, f) == CHOOSE i \in 1..Len(sch.properties) : sch.properties[i].name = f

RuleRank(r) ==
    CASE r = "required" -> 0
      [] r \in {"type_string", "type_integer", "type_boolean"} -> 1
      [] r = "min_length" -> 2
      [] r = "max_length" -> 3
      [] r = "pattern" -> 4
      [] r = "enum" -> 5
      [] r = "minimum" -> 6
      [] r = "maximum" -> 7

\* C6: the messages of a field declared earlier precede those of a field
\* declared later; within a field they come in the order type, min_length,
\* max_length, pattern, enum, minimum, maximum; a required-field message is
\* the only message of its field
C6_MessageOrder ==
    Validated =>
        /\ \A i, j \in 1..Len(errors) :
              i < j =>
                 \/ PropIndex(schema, errors[i].field) < PropIndex(schema, errors[j].field)
                 \/ /\ errors[i].field = errors[j].field
                    /\ RuleRank(errors[i].rule) < RuleRank(errors[j].rule)
        /\ \A i \in 1..Len(errors) :
              errors[i].rule = "required" => Len(MsgsFor(errors, errors[i].field)) = 1

\* two messages of the first field, minimum then maximum, followed by a
\* message of the second field
C6_Witness ==
    /\ pc = "data_done"
    /\ Len(errors) = 3
    /\ errors[1].field = "a" /\ errors[1].rule = "minimum"
    /\ errors[2].field = "a" /\ errors[2].rule = "maximum"
    /\ errors[3].field = "b" /\ errors[3].rule = "enum"

(***************************************************************************)
(* The case generator and the harness that runs its cases.  Dicts live in  *)
(* a heap and are held by reference: valid_case and the records of cases   *)
(* are indexes into heap.                                                  *)
(***************************************************************************)
\* "x" * n  (the empty string for n <= 0)
Repeat(c, n) == [i \in 1..n |-> c]

\* lines 67-79: the baseline value of a field (spec['type'] is present)
BaselineValue(sp) ==
    IF sp.type = "string"
    THEN IF "enum" \in sp.keys THEN sp.enum[1]
         ELSE IF "min_length" \in sp.keys THEN Str(Repeat("x", sp.min_length))
         ELSE Str(STest)
    ELSE IF sp.type = "integer"
    THEN Int_(IF "minimum" \in sp.keys THEN sp.minimum ELSE 0)
    ELSE IF sp.type = "boolean" THEN Bool(TRUE)
    ELSE None

\* d[k] = v on a dict
DictSet(d, k, v) == [g \in DOMAIN d \cup {k} |-> IF g = k THEN v ELSE d[g]]

\* invalid = valid_case with no copy made: the same dict under a second name
DictAlias(h, r) == [heap |-> h, ref |-> r]

\* invalid = valid_case.copy(): a new dict with the same items
DictCopy(h, r) == [heap |-> Append(h, h[r]), ref |-> Len(h) + 1]

Label(f, what) == [field |-> f, what |-> what]
Case(l, r) == [label |-> l, ref |-> r]

GenEnums == {<<Str(SA), Int_(1)>>, <<Str(SNotInEnum)>>}
GenSpecsOver(KS) == SpecsOver(KS, Types, Nums, Nums, {<<"^", "A">>}, GenEnums)
GenSpecs ==
    GenSpecsOver({ks \in KeySets(MaxRules) : "type" \in ks}) \cup GenSpecsOver({{}, {"enum"}})
GenSpecsLater == GenSpecsOver({ks \in KeySets(1) : "type" \in ks})

GenSchemas ==
    [properties : {<<>>} \cup {<<Prop("a", s)>> : s \in GenSpecs}
                  \cup {<<Prop("a", s[1]), Prop("b", s[2])>> : s \in GenSpecs \X GenSpecsLater},
     required : {{}, {"a"}}]

\* lines 63-65: cases = [], valid_case = {}
InitGen ==
    /\ pc = "gen_valid"
    /\ schema \in GenSchemas
    /\ heap = <<NoRecord>> /\ valid_case = 1 /\ cases = <<>>
    /\ gi = 1 /\ stage = 0
    /\ results = <<>>
    /\ errors = <<>> /\ prev_errors = <<>> /\ user_data = NoRecord
    /\ field = "" /\ value = None /\ spec = NoSpec

\* lines 66-79: one iteration of the loop that fills valid_case; spec['type']
\* raises KeyError when the spec has no type
BuildValid ==
    /\ pc = "gen_valid" /\ gi <= Len(schema.properties)
    /\ LET p == schema.properties[gi]
       IN  IF "type" \notin p.spec.keys
           THEN /\ pc' = "raised"
                /\ UNCHANGED <<heap, gi>>
           ELSE /\ heap' = [heap EXCEPT ![valid_case] =
                               DictSet(@, p.name, BaselineValue(p.spec))]
                /\ gi' = gi + 1
                /\ pc' = pc
    /\ UNCHANGED <<schema, field, value, spec, user_data, errors, prev_errors,
                   valid_case, cases, stage, results>>

\* line 80: cases.append(('Valid case', valid_case))
AppendValid ==
    /\ pc = "gen_valid" /\ gi > Len(schema.properties)
    /\ cases' = Append(cases, Case(Label("", "Valid case"), valid_case))
    /\ pc' = "gen_invalid" /\ gi' = 1 /\ stage' = 1
    /\ UNCHANGED <<schema, field, value, spec, user_data, errors, prev_errors,
                   heap, valid_case, results>>

\* one "if <rule> in spec" block of the second loop: when cond holds, copy
\* valid_case, overwrite the field and append the labelled case
VariantStep(k, cond, v, what) ==
    /\ pc = "gen_invalid" /\ gi <= Len(schema.properties) /\ stage = k
    /\ IF cond
       THEN LET c == DictCopy(heap, valid_case)
                f == schema.properties[gi].name
            IN  /\ heap' = [c.heap EXCEPT ![c.ref] = DictSet(@, f, v)]
                /\ cases' = Append(cases, Case(Label(f, what), c.ref))
       ELSE UNCHANGED <<heap, cases>>
    /\ IF k = 5 THEN gi' = gi + 1 /\ stage' = 1
                ELSE gi' = gi /\ stage' = k + 1
    /\ UNCHANGED <<pc, schema, field, value, spec, user_data, errors, prev_errors,
                   valid_case, results>>

CurSpec == schema.properties[gi].spec

\* lines 85-88
TooShort ==
    VariantStep(1, CurSpec.type = "string" /\ "min_length" \in CurSpec.keys,
                Str(<<>>), "too short")

\* lines 89-92
InvalidPattern ==
    VariantStep(2, CurSpec.type = "string" /\ "pattern" \in CurSpec.keys,
                Str(SInvalid), "invalid pattern")

\* lines 94-97
BelowMinimum ==
    VariantStep(3, CurSpec.type = "integer" /\ "minimum" \in CurSpec.keys,
                Int_(CurSpec.minimum - 1), "below minimum")

\* lines 98-101
AboveMaximum ==
    VariantStep(4, CurSpec.type = "integer" /\ "maximum" \in CurSpec.keys,
                Int_(CurSpec.maximum + 1), "above maximum")

\* lines 102-105
NotInEnum ==
    VariantStep(5, "enum" \in CurSpec.keys, Str(SNotInEnum), "not in enum")

\* line 106: return cases; run_test_cases(schema, cases) starts
ReturnCases ==
    /\ pc = "gen_invalid" /\ gi > Len(schema.properties)
    /\ pc' = "run" /\ gi' = 1 /\ stage' = 0
    /\ UNCHANGED <<schema, field, value, spec, user_data, errors, prev_errors,
                   heap, valid_case, cases, results>>

\* lines 110-118: one iteration of run_test_cases
RunCase ==
    /\ pc = "run" /\ gi <= Len(cases)
    /\ user_data' = heap[cases[gi].ref]
    /\ errors' = validate_data(schema, user_data')
    /\ results' = Append(results, errors')
    /\ gi' = gi + 1
    /\ UNCHANGED <<pc, schema, field, value, spec, prev_errors,
                   heap, valid_case, cases, stage>>

RunDone ==
    /\ pc = "run" /\ gi > Len(cases)
    /\ pc' = "done"
    /\ UNCHANGED <<schema, field, value, spec, user_data, errors, prev_errors,
                   heap, valid_case, cases, gi, stage, results>>

NextGen ==
    \/ BuildValid \/ AppendValid
    \/ TooShort \/ InvalidPattern \/ BelowMinimum \/ AboveMaximum \/ NotInEnum
    \/ ReturnCases \/ RunCase \/ RunDone

SpecGen == InitGen /\ [][NextGen]_vars

(***************************************************************************)
(* Properties of the case generator.                                       *)
(***************************************************************************)
Generated == pc \in {"run", "done"}

Baseline == heap[valid_case]

\* the variants: the cases after the first
Variants == 2..Len(cases)

WhatRank(w) ==
    CASE w = "too short" -> 1
      [] w = "invalid pattern" -> 2
      [] w = "below minimum" -> 3
      [] w = "above maximum" -> 4
      [] w = "not in enum" -> 5

\* the rule whose message a variant is labelled to provoke
RuleOfWhat(w) ==
    CASE w = "too short" -> "min_length"
      [] w = "invalid pattern" -> "pattern"
      [] w = "below minimum" -> "minimum"
      [] w = "above maximum" -> "maximum"
      [] w = "not in enum" -> "enum"

\* the labels section 4.4 lists for one declared field
QualifyingLabels(p) ==
    {Label(p.name, "too short") : x \in {1} \cap
        {y \in {1} : p.spec.type = "string" /\ "min_length" \in p.spec.keys}}
    \cup {Label(p.name, "invalid pattern") : x \in {1} \cap
        {y \in {1} : p.spec.type = "string" /\ "pattern" \in p.spec.keys}}
    \cup {Label(p.name, "below minimum") : x \in {1} \cap
        {y \in {1} : p.spec.type = "integer" /\ "minimum" \in p.spec.keys}}
    \cup {Label(p.name, "above maximum") : x \in {1} \cap
        {y \in {1} : p.spec.type = "integer" /\ "maximum" \in p.spec.keys}}
    \cup {Label(p.name, "not in enum") : x \in {1} \cap
        {y \in {1} : "enum" \in p.spec.keys}}

ExpectedLabels(sch) ==
    UNION {QualifyingLabels(sch.properties[i]) : i \in 1..Len(sch.properties)}

\* the sequence of cases, as far as it is built
C9_Cases ==
    /\ cases # <<>> => cases[1] = Case(Label("", "Valid case"), valid_case)
    /\ \A k \in Variants :
          /\ DOMAIN heap[cases[k].ref] = DOMAIN Baseline
          /\ \A f \in DOMAIN Baseline \ {cases[k].label.field} :
                heap[cases[k].ref][f] = Baseline[f]
    /\ \A j, k \in Variants :
          j < k =>
             \/ PropIndex(schema, cases[j].label.field)
                   < PropIndex(schema, cases[k].label.field)
             \/ /\ cases[j].label.field = cases[k].label.field
                /\ WhatRank(cases[j].label.what) < WhatRank(cases[k].label.what)
    /\ Generated => {cases[k].label : k \in Variants} = ExpectedLabels(schema)

\* a step leaves every case already in the sequence, and its record, as it was
C9_Frame ==
    \A k \in 1..Len(cases) :
        /\ k <= Len(cases')
        /\ cases'[k] = cases[k]
        /\ heap'[cases[k].ref] = heap[cases[k].ref]

\* C9: the baseline "Valid case" comes first; every later record equals the
\* baseline on every field but the one its label names; the variants come in
\* schema declaration order and, within a field, in the order too short,
\* invalid pattern, below minimum, above maximum, not in enum; there is
\* exactly one variant per qualifying rule key present and none for
\* max_length or type; generating a variant never changes the baseline or an
\* earlier variant
C9_GeneratedSequence == [](C9_Cases) /\ [][C9_Frame]_vars

\* three variants were generated, two of them for the first field
C9_Witness ==
    /\ pc = "done"
    /\ Len(cases) = 4
    /\ cases[2].label = Label("a", "too short")
    /\ cases[3].label = Label("a", "not in enum")
    /\ cases[4].label = Label("b", "below minimum")
    /\ heap[cases[3].ref]["a"] # Baseline["a"]

\* C4: the baseline yields no message for a field whose spec carries, besides
\* its type, only min_length, enum and minimum
C4_BaselineIsValid ==
    pc = "done" =>
        \A i \in 1..Len(schema.properties) :
            LET p == schema.properties[i]
            IN  (/\ p.spec.type \in {"string", "integer", "boolean"}
                 /\ p.spec.keys \subseteq {"type", "min_length", "enum", "minimum"})
                => MsgsFor(results[1], p.name) = <<>>

\* C10: every variant other than "invalid pattern" yields the message of the
\* rule its label names, for the field its label names
C10_VariantViolatesItsRule ==
    pc = "done" =>
        \A k \in Variants :
            cases[k].label.what # "invalid pattern" =>
                HasMsg(results[k], cases[k].label.field, RuleOfWhat(cases[k].label.what))

\* C10 for the variants "below minimum" and "above maximum", for "too short"
\* when min_length is positive and for "not in enum" when the enum does not
\* hold the string "not-in-enum"
C10_HoldsForBreakableRules ==
    pc = "done" =>
        \A k \in Variants :
            LET l == cases[k].label
                sp == schema.properties[PropIndex(schema, l.field)].spec
            IN  (/\ l.what # "invalid pattern"
                 /\ l.what = "too short" => sp.min_length > 0
                 /\ l.what = "not in enum" =>
                       \A i \in 1..Len(sp.enum) : sp.enum[i] # Str(SNotInEnum))
                => HasMsg(results[k], l.field, RuleOfWhat(l.what))

====
